---------------------------- MODULE Spec2Model ----------------------------
(***************************************************************************)
(* Model of @pacioli/plugin-sdk: the manifest schema (types.ts), plugin    *)
(* creation and the permission helper (plugin.ts), and the host-side       *)
(* permission enforcement the SDK documents (types.ts, README).            *)
(***************************************************************************)
EXTENDS Integers, Sequences, FiniteSets, TLC

(***************************************************************************)
(* JavaScript values.  A string is the sequence of its pieces: a string a  *)
(* rule reads character by character (id, version) has one character per   *)
(* piece, a string no rule looks inside (a display                         *)
(* name) is a single piece, a capability token is the pieces resource,     *)
(* ":" and action, and the empty string is the empty sequence.             *)
(* An array literal is Arr(elements); an array that lives on the heap is   *)
(* referred to by Ref(address), so that two references can alias it.       *)
(***************************************************************************)
Undefined == [t |-> "undefined"]
Str(pieces) == [t |-> "string", v |-> pieces]
Num(n) == [t |-> "number", v |-> n]
Arr(elems) == [t |-> "array", v |-> elems]
Ref(a) == [t |-> "ref", v |-> a]

Text(s) == Str(<<s>>)
\* a capability token <resource>:<action>
Tok(resource, action) == Str(<<resource, ":", action>>)

(***************************************************************************)
(* PluginManifestSchema (zod).  Every check of every field is run and      *)
(* every failure adds an issue {path, code}; issues come in the order of   *)
(* the schema's keys.                                                      *)
(***************************************************************************)
LowerCase ==
  {"a", "b", "c", "d", "e", "f", "g", "h", "i", "j", "k", "l", "m",
   "n", "o", "p", "q", "r", "s", "t", "u", "v", "w", "x", "y", "z"}
Digits == {"0", "1", "2", "3", "4", "5", "6", "7", "8", "9"}

Issue(path, code) == [path |-> path, code |-> code]

\* /^[a-z0-9-]+$/
\* (faulty variant: the pattern without its anchors, /[a-z0-9-]+/)
IdPatternUnanchored(s) ==
  \E i \in 1..Len(s) : s[i] \in LowerCase \cup Digits \cup {"-"}
IdPattern(s) ==
  /\ Len(s) >= 1
  /\ \A i \in 1..Len(s) : s[i] \in LowerCase \cup Digits \cup {"-"}

\* \d+ starting at position i: the position after the last digit of the run
RECURSIVE SkipDigits(_, _)
SkipDigits(s, i) ==
  IF i <= Len(s) /\ s[i] \in Digits THEN SkipDigits(s, i + 1) ELSE i

\* /^\d+\.\d+\.\d+/ (no end anchor)
\* (faulty variant: the pattern anchored at the end, /^\d+\.\d+\.\d+$/)
VersionPatternAnchored(s) ==
  LET a == SkipDigits(s, 1)
      b == SkipDigits(s, a + 1)
      c == SkipDigits(s, b + 1)
  IN  /\ a > 1
      /\ a <= Len(s) /\ s[a] = "."
      /\ b > a + 1
      /\ b <= Len(s) /\ s[b] = "."
      /\ c > b + 1
      /\ c = Len(s) + 1
VersionPattern(s) ==
  LET a == SkipDigits(s, 1)
      b == SkipDigits(s, a + 1)
      c == SkipDigits(s, b + 1)
  IN  /\ a > 1
      /\ a <= Len(s) /\ s[a] = "."
      /\ b > a + 1
      /\ b <= Len(s) /\ s[b] = "."
      /\ c > b + 1

\* z.string().url(): the string parses as an absolute URL, i.e. it starts
\* with a scheme; the scheme is the first piece of a URL string.
Schemes == {"https:", "http:"}
IsUrl(s) == Len(s) >= 1 /\ s[1] \in Schemes

TypeIssue(key) == <<Issue(<<key>>, "invalid_type")>>

\* z.string().min(1).regex(/^[a-z0-9-]+$/)
IdIssues(x) ==
  IF x.t # "string" THEN TypeIssue("id")
  ELSE (IF Len(x.v) < 1 THEN <<Issue(<<"id">>, "too_small")>> ELSE <<>>)
       \o (IF ~IdPattern(x.v) THEN <<Issue(<<"id">>, "invalid_string")>> ELSE <<>>)

\* z.string().min(1): name, author, description
NonEmptyIssues(key, x) ==
  IF x.t # "string" THEN TypeIssue(key)
  ELSE IF Len(x.v) < 1 THEN <<Issue(<<key>>, "too_small")>>
  ELSE <<>>

\* z.string().regex(/^\d+\.\d+\.\d+/)
VersionIssues(x) ==
  IF x.t # "string" THEN TypeIssue("version")
  ELSE IF ~VersionPattern(x.v) THEN <<Issue(<<"version">>, "invalid_string")>>
  ELSE <<>>

\* z.string().url().optional()
HomepageIssues(x) ==
  IF x = Undefined THEN <<>>
  ELSE IF x.t # "string" THEN TypeIssue("homepage")
  ELSE IF ~IsUrl(x.v) THEN <<Issue(<<"homepage">>, "invalid_string")>>
  ELSE <<>>

\* z.string()
\* (faulty variant: the key declared .optional(), an absent value passes)
StringIssuesOptional(key, x) ==
  IF x = Undefined THEN <<>>
  ELSE IF x.t # "string" THEN TypeIssue(key) ELSE <<>>
StringIssues(key, x) == IF x.t # "string" THEN TypeIssue(key) ELSE <<>>

\* z.string().optional()
OptionalStringIssues(key, x) ==
  IF x = Undefined THEN <<>> ELSE StringIssues(key, x)

\* z.array(z.string()): one issue per element that is not a string, at
\* path [key, index] (indices from 0)
RECURSIVE ElementIssues(_, _, _)
ElementIssues(key, elems, i) ==
  IF i > Len(elems) THEN <<>>
  ELSE (IF elems[i].t # "string"
          THEN <<Issue(<<key, i - 1>>, "invalid_type")>> ELSE <<>>)
       \o ElementIssues(key, elems, i + 1)

StringArrayIssues(key, x) ==
  IF x.t # "array" THEN TypeIssue(key) ELSE ElementIssues(key, x.v, 1)

\* z.array(z.string()).default([])
PermissionsIssues(x) ==
  IF x = Undefined THEN <<>> ELSE StringArrayIssues("permissions", x)

\* z.array(z.string()).optional()
TagsIssues(x) ==
  IF x = Undefined THEN <<>> ELSE StringArrayIssues("tags", x)

\* the keys of the schema, in declaration order, and the issues of one key
SchemaKeys ==
  <<"id", "name", "version", "author", "description", "homepage",
    "compatibleVersions", "permissions", "icon", "tags">>
KeyIssues(raw, key) ==
  CASE key = "id" -> IdIssues(raw.id)
    [] key = "name" -> NonEmptyIssues("name", raw.name)
    [] key = "version" -> VersionIssues(raw.version)
    [] key = "author" -> NonEmptyIssues("author", raw.author)
    [] key = "description" -> NonEmptyIssues("description", raw.description)
    [] key = "homepage" -> HomepageIssues(raw.homepage)
    [] key = "compatibleVersions" ->
         StringIssues("compatibleVersions", raw.compatibleVersions)
    [] key = "permissions" -> PermissionsIssues(raw.permissions)
    [] key = "icon" -> OptionalStringIssues("icon", raw.icon)
    [] key = "tags" -> TagsIssues(raw.tags)

\* z.object({...}): the issues of all keys, not only of the first bad key
\* (faulty variant: validation stops at the first key that has an issue)
ManifestIssuesFirstOnly(raw) ==
  LET bad == {i \in 1..Len(SchemaKeys) : KeyIssues(raw, SchemaKeys[i]) # <<>>}
  IN  IF bad = {} THEN <<>>
      ELSE KeyIssues(raw, SchemaKeys[CHOOSE i \in bad : \A j \in bad : i <= j])
ManifestIssues(raw) ==
  IdIssues(raw.id)
  \o NonEmptyIssues("name", raw.name)
  \o VersionIssues(raw.version)
  \o NonEmptyIssues("author", raw.author)
  \o NonEmptyIssues("description", raw.description)
  \o HomepageIssues(raw.homepage)
  \o StringIssues("compatibleVersions", raw.compatibleVersions)
  \o PermissionsIssues(raw.permissions)
  \o OptionalStringIssues("icon", raw.icon)
  \o TagsIssues(raw.tags)

\* the elements of a sequence, each kept at its first occurrence only
RECURSIVE DropDuplicates(_)
DropDuplicates(s) ==
  IF s = <<>> THEN <<>>
  ELSE LET r == DropDuplicates(SubSeq(s, 1, Len(s) - 1))
       IN  IF \E i \in 1..Len(r) : r[i] = s[Len(s)] THEN r ELSE Append(r, s[Len(s)])

\* The value a successful parse returns: the schema's keys copied from the
\* input, permissions defaulted to [] when absent.
\* (faulty variant: the permissions are normalised to a duplicate-free list)
ManifestOutputNormalised(raw) ==
  [raw EXCEPT !.permissions = IF raw.permissions = Undefined THEN Arr(<<>>)
                              ELSE Arr(DropDuplicates(@.v))]
ManifestOutput(raw) ==
  [raw EXCEPT !.permissions = IF raw.permissions = Undefined THEN Arr(<<>>) ELSE @]

\* an input that is no object: a primitive or an array (objects are the
\* records of the schema's keys, a key the object lacks reading undefined)
IsObject(raw) == "t" \notin DOMAIN raw

\* PluginManifestSchema.safeParse: z.object rejects an input that is no
\* object with one issue at the empty path
SafeParse(raw) ==
  IF ~IsObject(raw)
    THEN [success |-> FALSE, data |-> Undefined,
          issues |-> <<Issue(<<>>, "invalid_type")>>]
    ELSE LET issues == ManifestIssues(raw)
         IN  IF issues = <<>>
               THEN [success |-> TRUE, data |-> ManifestOutput(raw), issues |-> <<>>]
               ELSE [success |-> FALSE, data |-> Undefined, issues |-> issues]

\* PluginManifestSchema.parse: the data of a successful safeParse, and a
\* thrown ZodError carrying the issues otherwise
\* (faulty variant: a failed parse returns the input as it came)
ParseLenient(raw) ==
  LET result == SafeParse(raw)
  IN  IF result.success THEN [kind |-> "return", value |-> result.data]
      ELSE [kind |-> "return", value |-> raw]
Parse(raw) ==
  LET result == SafeParse(raw)
  IN  IF result.success THEN [kind |-> "return", value |-> result.data]
      ELSE [kind |-> "throw", name |-> "ZodError", detail |-> result.issues]


(***************************************************************************)
(* Bounds and the inputs the operations are tried on.                      *)
(***************************************************************************)
MaxPlugins == 2      \* createPlugin calls that return a plugin
MaxArrayLen == 2     \* length up to which plugin code pushes onto an array

TxRead == Tok("transactions", "read")
TxWrite == Tok("transactions", "write")

\* the capability vocabulary, types.ts Permission
Vocabulary ==
  {Tok("transactions", "read"), Tok("transactions", "write"),
   Tok("accounts", "read"), Tok("accounts", "write"),
   Tok("categories", "read"), Tok("categories", "write"),
   Tok("network", "external"), Tok("storage", "local"),
   Tok("ui", "settings"), Tok("ui", "menu"), Tok("ui", "dashboard")}

\* a token that is not of the shape <resource>:<action>
Malformed == Text("admin")

\* a host-specific token, well formed and outside the vocabulary
Custom == Tok("reports", "read")

\* strings a manifest literal declares, and strings hasPermission is asked
DeclaredTokens == {TxRead, TxWrite, Malformed, Custom}
AskedTokens == DeclaredTokens \cup {Text("transactions"), Tok("accounts", "read")}
\* strings plugin code appends to a permissions array it holds
PushedTokens == {TxWrite}

ValidId == Str(<<"p", "1">>)
InvalidId == Str(<<"I", "d", "!">>)

BaseManifest ==
  [id |-> ValidId,
   name |-> Text("Test Plugin"),
   version |-> Str(<<"1", ".", "0", ".", "0">>),
   author |-> Text("Test Author"),
   description |-> Text("A test plugin"),
   homepage |-> Undefined,
   compatibleVersions |-> Text("^0.1.0"),
   permissions |-> Undefined,
   icon |-> Undefined,
   tags |-> Undefined]

\* permissions of a manifest literal: absent, a list of one token, or the
\* two transaction tokens, write first
PermissionLiterals ==
  {Undefined, Arr(<<TxWrite, TxRead>>)} \cup {Arr(<<c>>) : c \in DeclaredTokens}

\* manifest literals passed to createPlugin
ManifestLiterals ==
  {[BaseManifest EXCEPT !.id = i, !.permissions = p] :
     i \in {ValidId, InvalidId}, p \in PermissionLiterals}

Hooks == {"onActivate", "onDeactivate", "onSettingsChange"}

\* lifecycle objects passed to createPlugin: the default {}, hooks only, and
\* objects that also carry an own property named manifest (the PluginLifecycle
\* type does not list it; nothing at runtime forbids it)
NoProperty == [t |-> "none"]
InjectedManifests ==
  {[BaseManifest EXCEPT !.id = InvalidId, !.permissions = Arr(<<TxWrite>>)],
   [BaseManifest EXCEPT !.permissions = Undefined]}
LifecycleLiterals ==
  {[hooks |-> {}, manifest |-> NoProperty],
   [hooks |-> {"onActivate"}, manifest |-> NoProperty]}
  \cup {[hooks |-> {"onActivate"}, manifest |-> m] : m \in InjectedManifests}

(***************************************************************************)
(* State.                                                                  *)
(***************************************************************************)
VARIABLES
  arrays,    \* the heap of arrays: arrays[a] is the content of array a
  objects,   \* the heap of manifest objects; an array-valued field is a Ref
  plugins,   \* the Plugin objects createPlugin returned, in creation order
  contexts,  \* the plugins for which the host built a PluginContext
  store,     \* the state behind the host's real repositories and registries
  last,      \* the last call made and its outcome
  subscribers,  \* the event bus: for every event type its handlers, in order
  dispatch,     \* the emission in progress or last finished
  invoked,      \* the handler invocations of that emission, in order
  records,      \* the plugin manager: the lifecycle state of every record
  flights       \* for every record the lifecycle transitions in flight

bus == <<subscribers, dispatch, invoked>>
manager == <<records, flights>>
vars ==
  <<arrays, objects, plugins, contexts, store, last, subscribers, dispatch,
    invoked, records, flights>>

Ret(v) == [kind |-> "return", value |-> v]
Throw(name, detail) == [kind |-> "throw", name |-> name, detail |-> detail]

NoCall == [op |-> "none"]

(***************************************************************************)
(* Heap: an object literal is built in memory before it is passed.        *)
(***************************************************************************)
\* the heap after storing the arrays of object literal `lit`, and the object
AllocObject(arrs, lit) ==
  LET p == lit.permissions
      a1 == IF p.t = "array" THEN Append(arrs, p.v) ELSE arrs
      pr == IF p.t = "array" THEN Ref(Len(a1)) ELSE p
      g == lit.tags
      a2 == IF g.t = "array" THEN Append(a1, g.v) ELSE a1
      gr == IF g.t = "array" THEN Ref(Len(a2)) ELSE g
  IN  [arrays |-> a2, obj |-> [lit EXCEPT !.permissions = pr, !.tags = gr]]

\* the value of a heap object as a reader sees it now
ReadObject(arrs, obj) ==
  [obj EXCEPT !.permissions = IF @.t = "ref" THEN Arr(arrs[@.v]) ELSE @,
              !.tags = IF @.t = "ref" THEN Arr(arrs[@.v]) ELSE @]

(***************************************************************************)
(* plugin.ts                                                               *)
(***************************************************************************)
ObjRef(i) == [t |-> "object", v |-> i]

\* createPlugin(manifest, lifecycle) on heap <<arrs, objs>>: `manifest` is
\* the address of the caller's manifest object; `lifecycle` carries the hooks
\* and, if it has an own property named manifest, that property's value.
\* PluginManifestSchema.parse builds a new object and a new array; the
\* object spread copies lifecycle's own properties over {manifest: ...}.
\* (faulty variant: the manifest is validated, but the caller's object is
\* kept instead of the parsed copy)
createPluginAliasing(arrs, objs, manifest, lifecycle) ==
  LET parsed == Parse(ReadObject(arrs, objs[manifest]))
  IN  IF parsed.kind = "throw"
        THEN [outcome |-> parsed]
        ELSE [outcome |-> [kind |-> "return", value |-> "plugin"],
              arrays |-> arrs,
              objects |-> objs,
              plugin |-> [manifest |-> IF lifecycle.manifest.t = "object"
                                         THEN lifecycle.manifest.v
                                         ELSE manifest,
                          hooks |-> lifecycle.hooks]]
\* (faulty variant: a manifest that fails validation is used as it came)
createPluginUnchecked(arrs, objs, manifest, lifecycle) ==
  LET parsed == Parse(ReadObject(arrs, objs[manifest]))
      fresh == AllocObject(arrs, parsed.value)
      objs2 == Append(objs, fresh.obj)
  IN  IF parsed.kind = "throw"
        THEN [outcome |-> [kind |-> "return", value |-> "plugin"],
              arrays |-> arrs,
              objects |-> objs,
              plugin |-> [manifest |-> manifest, hooks |-> lifecycle.hooks]]
        ELSE [outcome |-> [kind |-> "return", value |-> "plugin"],
              arrays |-> fresh.arrays,
              objects |-> objs2,
              plugin |-> [manifest |-> IF lifecycle.manifest.t = "object"
                                         THEN lifecycle.manifest.v
                                         ELSE Len(objs2),
                          hooks |-> lifecycle.hooks]]
createPlugin(arrs, objs, manifest, lifecycle) ==
  LET parsed == Parse(ReadObject(arrs, objs[manifest]))
      fresh == AllocObject(arrs, parsed.value)
      objs2 == Append(objs, fresh.obj)
      validatedManifest == Len(objs2)
  IN  IF parsed.kind = "throw"
        THEN [outcome |-> parsed]
        ELSE [outcome |-> Ret("plugin"),
              arrays |-> fresh.arrays,
              objects |-> objs2,
              plugin |-> [manifest |-> IF lifecycle.manifest.t = "object"
                                         THEN lifecycle.manifest.v
                                         ELSE validatedManifest,
                          hooks |-> lifecycle.hooks]]

\* (faulty variant: indexOf(x) > 0, which misses the first element)
IncludesAfterFirst(elems, x) == \E i \in 2..Len(elems) : elems[i] = x
\* (faulty variant: a match on the resource prefix of a token)
IncludesByResource(elems, x) ==
  \E i \in 1..Len(elems) :
    elems[i].t = "string" /\ x.v # <<>> /\ elems[i].v # <<>> /\ elems[i].v[1] = x.v[1]
\* (faulty variant: true only for an element that occurs exactly once)
IncludesOnce(elems, x) == Cardinality({i \in 1..Len(elems) : elems[i] = x}) = 1
\* Array.prototype.includes
Includes(elems, x) == \E i \in 1..Len(elems) : elems[i] = x

\* hasPermission(plugin, permission):
\*   plugin.manifest.permissions.includes(permission)
\* A permissions value that is no array has no includes method.
\* (faulty variant: strings outside the Permission vocabulary are refused)
hasPermissionKnownOnly(plugin, permission) ==
  LET perms == objects[plugin.manifest].permissions
  IN  IF perms.t # "ref"
        THEN [kind |-> "throw", name |-> "TypeError", detail |-> <<"permissions.includes">>]
        ELSE [kind |-> "return",
              value |-> permission \in Vocabulary /\ Includes(arrays[perms.v], permission)]
hasPermission(plugin, permission) ==
  LET perms == objects[plugin.manifest].permissions
  IN  IF perms.t # "ref"
        THEN Throw("TypeError", <<"permissions.includes">>)
        ELSE Ret(Includes(arrays[perms.v], permission))

\* getPluginMetadata(plugin): a new object; its permissions is the
\* manifest's own array, not a copy.
getPluginMetadata(plugin) ==
  LET m == objects[plugin.manifest]
  IN  [id |-> m.id, name |-> m.name, version |-> m.version,
       author |-> m.author, description |-> m.description,
       homepage |-> m.homepage, permissions |-> m.permissions]

(***************************************************************************)
(* The host: the permission table the PluginContext documentation gives,   *)
(* the real repositories and registries behind the context, and the        *)
(* permission-enforcing wrappers the SDK documents.                        *)
(***************************************************************************)
Operations ==
  {"transactions.findAll", "transactions.update", "transactions.delete",
   "accounts.findAll", "accounts.update",
   "categories.findAll", "categories.update",
   "network.request", "storage.set",
   "ui.registerSettingsPanel", "ui.registerMenuItem",
   "ui.registerDashboardWidget"}

\* the capability the host enforces for an operation
RequiredCapability(op) ==
  CASE op = "transactions.findAll" -> Tok("transactions", "read")
    [] op = "transactions.update" -> Tok("transactions", "write")
    [] op = "transactions.delete" -> Tok("transactions", "write")
    [] op = "accounts.findAll" -> Tok("accounts", "read")
    [] op = "accounts.update" -> Tok("accounts", "write")
    [] op = "categories.findAll" -> Tok("categories", "read")
    [] op = "categories.update" -> Tok("categories", "write")
    [] op = "network.request" -> Tok("network", "external")
    [] op = "storage.set" -> Tok("storage", "local")
    [] op = "ui.registerSettingsPanel" -> Tok("ui", "settings")
    [] op = "ui.registerMenuItem" -> Tok("ui", "menu")
    [] op = "ui.registerDashboardWidget" -> Tok("ui", "dashboard")

\* the repository, store or registry an operation works on
Resources ==
  {"transactions", "accounts", "categories", "network", "storage",
   "settingsPanels", "menuItems", "dashboardWidgets"}

ResourceOf(op) ==
  CASE op \in {"transactions.findAll", "transactions.update",
               "transactions.delete"} -> "transactions"
    [] op \in {"accounts.findAll", "accounts.update"} -> "accounts"
    [] op \in {"categories.findAll", "categories.update"} -> "categories"
    [] op = "network.request" -> "network"
    [] op = "storage.set" -> "storage"
    [] op = "ui.registerSettingsPanel" -> "settingsPanels"
    [] op = "ui.registerMenuItem" -> "menuItems"
    [] op = "ui.registerDashboardWidget" -> "dashboardWidgets"

\* the keys (ids) the operations are called with
Keys == {"k1"}

\* The real collaborator behind the wrappers: each resource maps a key to
\* "absent", "stored" (as first stored) or "updated".
InitialStore == [r \in Resources |-> [k \in Keys |-> "stored"]]

\* what the real operations return: the rows of a repository, one row
Rows(content) == [t |-> "rows", v |-> content]
Row(k, status) == [t |-> "row", v |-> <<k, status>>]

ActualCall(st, op, k) ==
  LET r == ResourceOf(op)
  IN  CASE op \in {"transactions.findAll", "accounts.findAll",
                   "categories.findAll"} ->
             [store |-> st, outcome |-> Ret(Rows(st[r]))]
        [] op \in {"transactions.update", "accounts.update",
                   "categories.update"} ->
             IF st[r][k] = "absent"
               THEN [store |-> st, outcome |-> Throw("NotFound", <<>>)]
               ELSE [store |-> [st EXCEPT ![r][k] = "updated"],
                     outcome |-> Ret(Row(k, "updated"))]
        [] op = "transactions.delete" ->
             [store |-> [st EXCEPT ![r][k] = "absent"], outcome |-> Ret(Undefined)]
        [] OTHER ->
             [store |-> [st EXCEPT ![r][k] = "updated"], outcome |-> Ret(Undefined)]

\* `${x}` in a template literal
Interpolate(x) == IF x.t = "string" THEN x.v ELSE <<x.t>>

\* `Plugin '${this.plugin.manifest.id}' missing permission: <capability>`
MissingPermissionMessage(id, capability) ==
  <<"Plugin '">> \o Interpolate(id) \o <<"' missing permission: ">> \o capability.v

\* 'Permission denied: <capability> required'
PermissionDeniedMessage(id, capability) ==
  <<"Permission denied: ">> \o capability.v \o <<" required">>

\* the message of the Error a wrapper throws on a missing capability
DeniedMessage(op, id, capability) ==
  IF op = "transactions.delete"
    THEN PermissionDeniedMessage(id, capability)
    ELSE MissingPermissionMessage(id, capability)

\* (faulty variant: the real operation runs before the permission is checked)
EnforcedCallCheckAfter(plugin, st, op, k) ==
  LET m == objects[plugin.manifest]
      capability == RequiredCapability(op)
      done == ActualCall(st, op, k)
  IN  IF m.permissions.t # "ref"
        THEN [store |-> st, outcome |-> Throw("TypeError", <<"permissions.includes">>)]
      ELSE IF ~Includes(arrays[m.permissions.v], capability)
        THEN [store |-> done.store,
              outcome |-> Throw("Error", DeniedMessage(op, m.id, capability))]
      ELSE done
\* (faulty variant: the wrapper awaits the real operation and drops its result)
EnforcedCallDropsResult(plugin, st, op, k) ==
  LET m == objects[plugin.manifest]
      capability == RequiredCapability(op)
      done == ActualCall(st, op, k)
  IN  IF m.permissions.t # "ref"
        THEN [store |-> st, outcome |-> Throw("TypeError", <<"permissions.includes">>)]
      ELSE IF ~Includes(arrays[m.permissions.v], capability)
        THEN [store |-> st,
              outcome |-> Throw("Error", DeniedMessage(op, m.id, capability))]
      ELSE [store |-> done.store, outcome |-> Ret(Undefined)]
\* A wrapper method of the host, bound to `plugin` at construction:
\*   if (!this.plugin.manifest.permissions.includes(<capability>)) throw ...
\*   return this.actualRepository.<op>(args)
EnforcedCall(plugin, st, op, k) ==
  LET m == objects[plugin.manifest]
      capability == RequiredCapability(op)
  IN  IF m.permissions.t # "ref"
        THEN [store |-> st, outcome |-> Throw("TypeError", <<"permissions.includes">>)]
      ELSE IF ~Includes(arrays[m.permissions.v], capability)
        THEN [store |-> st,
              outcome |-> Throw("Error", DeniedMessage(op, m.id, capability))]
      ELSE ActualCall(st, op, k)

(***************************************************************************)
(* The event bus behind context.events (interface EventEmitter).  The SDK  *)
(* declares on, off and emit; the bus itself belongs to the host.          *)
(***************************************************************************)
EventTypes == {"sync.completed", "sync.failed"}
Handlers == {"h1", "h2", "h3"}

NoHandlers == [T \in EventTypes |-> <<>>]
\* `result` is what the caller of emit gets: nothing yet ("running"), a
\* normal return, or an error thrown out of emit
Idle == [type |-> "none", snapshot |-> <<>>, next |-> 1, result |-> "none"]

IsRegistered(subs, eventType, handler) ==
  \E i \in 1..Len(subs[eventType]) : subs[eventType][i] = handler

\* on(eventType, handler): the handler is added after the handlers already
\* registered for the type; a handler already registered stays where it is
on(subs, eventType, handler) ==
  IF IsRegistered(subs, eventType, handler) THEN subs
  ELSE [subs EXCEPT ![eventType] = Append(@, handler)]

\* off(eventType, handler): the handler is removed; no-op when not registered
\* (faulty variant: when the handler is not found, the oldest one is removed)
offOldest(subs, eventType, handler) ==
  IF IsRegistered(subs, eventType, handler)
    THEN [subs EXCEPT ![eventType] = SelectSeq(@, LAMBDA h : h # handler)]
  ELSE IF subs[eventType] = <<>> THEN subs
  ELSE [subs EXCEPT ![eventType] = Tail(@)]
off(subs, eventType, handler) ==
  [subs EXCEPT ![eventType] = SelectSeq(@, LAMBDA h : h # handler)]

\* the handlers of a list, last registered first
RECURSIVE Reversed(_)
Reversed(s) == IF s = <<>> THEN <<>> ELSE Append(Reversed(Tail(s)), Head(s))

\* emit(event): the dispatch starts on a snapshot of the handlers registered
\* for the event's type, in registration order
\* (faulty variant: the newest handler is called first)
emitNewestFirst(subs, eventType) ==
  [type |-> eventType, snapshot |-> Reversed(subs[eventType]), next |-> 1,
   result |-> IF subs[eventType] = <<>> THEN "returned" ELSE "running"]
emit(subs, eventType) ==
  [type |-> eventType, snapshot |-> subs[eventType], next |-> 1,
   result |-> IF subs[eventType] = <<>> THEN "returned" ELSE "running"]

InFlight(d) == d.next <= Len(d.snapshot)

\* one handler invocation of the dispatch: the next handler of the snapshot
\* is called with the event; whether it returns or throws, the dispatch
\* moves on to the handler after it
\* (faulty variant: a handler that throws ends the dispatch and its error
\* leaves emit)
invokeUnguarded(d, calls, outcome) ==
  [dispatch |-> IF outcome = "threw"
                  THEN [d EXCEPT !.next = Len(d.snapshot) + 1, !.result = "threw"]
                  ELSE [d EXCEPT !.next = @ + 1,
                                 !.result = IF d.next = Len(d.snapshot)
                                              THEN "returned" ELSE @],
   invoked |-> Append(calls, [handler |-> d.snapshot[d.next], type |-> d.type,
                              outcome |-> outcome])]
\* (faulty variant: the dispatch re-reads the live handler list after a call)
invokeLive(d, calls, outcome) ==
  LET live == subscribers[d.type]
  IN  [dispatch |-> [d EXCEPT !.next = @ + 1,
                              !.snapshot = live,
                              !.result = IF d.next >= Len(live) THEN "returned" ELSE @],
       invoked |-> Append(calls, [handler |-> d.snapshot[d.next], type |-> d.type,
                                  outcome |-> outcome])]
invoke(d, calls, outcome) ==
  [dispatch |-> [d EXCEPT !.next = @ + 1,
                          !.result = IF d.next = Len(d.snapshot) THEN "returned" ELSE @],
   invoked |-> Append(calls, [handler |-> d.snapshot[d.next], type |-> d.type,
                              outcome |-> outcome])]

(***************************************************************************)
(* The plugin manager: one record per loaded plugin (a manifest and the    *)
(* hooks of interface PluginLifecycle) with the states Registered, Active  *)
(* and Inactive.  The SDK declares the hooks; the manager is the host's.   *)
(***************************************************************************)
Records == {"r1", "r2", "r3"}
\* the hooks a record's plugin defines: r1 both, r2 none, r3 onActivate only
HooksOf(r) ==
  CASE r = "r1" -> {"onActivate", "onDeactivate"}
    [] r = "r2" -> {}
    [] r = "r3" -> {"onActivate"}

States == {"Registered", "Active", "Inactive"}
\* how a hook call can end; all but the first are failures (timedOut: the
\* host's deadline passed before the hook ended)
CallbackOutcomes == {"resolved", "threw", "rejected", "timedOut"}

\* a transition may start when none is in flight for the record (the
\* manager serialises the transitions of one record)
\* (faulty variant: requests are not serialised)
CanStartUnserialised(inFlight) == Len(inFlight) < 2
CanStart(inFlight) == inFlight = <<>>

\* the sequence without the first occurrence of x
RemoveFirst(seq, x) ==
  LET i == CHOOSE k \in 1..Len(seq) : seq[k] = x /\ \A j \in 1..(k - 1) : seq[j] # x
  IN  SubSeq(seq, 1, i - 1) \o SubSeq(seq, i + 1, Len(seq))

\* activate(context): allowed from Registered; invokes onActivate
activate(state, hooks) ==
  IF state = "Registered"
    THEN [started |-> TRUE, invoked |-> "onActivate" \in hooks,
          outcome |-> [kind |-> "pending"]]
    ELSE [started |-> FALSE, invoked |-> FALSE,
          outcome |-> [kind |-> "throw", name |-> "InvalidState", detail |-> <<state>>]]

\* the end of an activation: Active when the hook resolved, otherwise the
\* record stays Registered and the failure is reported as ActivationError
\* wrapping the cause
\* (faulty variant: the hook's promise is not awaited, a rejection is lost)
activationEndNotAwaited(state, callback) ==
  IF callback \in {"resolved", "rejected"}
    THEN [state |-> "Active", outcome |-> [kind |-> "return", value |-> Undefined]]
    ELSE [state |-> state,
          outcome |-> [kind |-> "throw", name |-> "ActivationError", detail |-> <<callback>>]]
activationEnd(state, callback) ==
  IF callback = "resolved"
    THEN [state |-> "Active", outcome |-> [kind |-> "return", value |-> Undefined]]
    ELSE [state |-> state,
          outcome |-> [kind |-> "throw", name |-> "ActivationError", detail |-> <<callback>>]]

\* deactivate(): from Active it invokes onDeactivate if present; from
\* Inactive it is a no-op; from Registered it is refused
\* (faulty variant: the hook is invoked whatever the state)
deactivateUnconditional(state, hooks) ==
  IF state \in {"Active", "Inactive"}
    THEN [started |-> TRUE, invoked |-> "onDeactivate" \in hooks,
          outcome |-> [kind |-> "pending"]]
    ELSE [started |-> FALSE, invoked |-> FALSE,
          outcome |-> [kind |-> "throw", name |-> "InvalidState", detail |-> <<state>>]]
deactivate(state, hooks) ==
  IF state = "Active"
    THEN [started |-> TRUE, invoked |-> "onDeactivate" \in hooks,
          outcome |-> [kind |-> "pending"]]
  ELSE IF state = "Inactive"
    THEN [started |-> FALSE, invoked |-> FALSE,
          outcome |-> [kind |-> "return", value |-> Undefined]]
  ELSE [started |-> FALSE, invoked |-> FALSE,
        outcome |-> [kind |-> "throw", name |-> "InvalidState", detail |-> <<state>>]]

\* the end of a deactivation: the record is Inactive; a failure of the hook
\* is reported and does not keep the record Active
deactivationEnd(state, callback) ==
  [state |-> "Inactive",
   outcome |-> IF callback = "resolved"
                 THEN [kind |-> "return", value |-> Undefined]
                 ELSE [kind |-> "throw", name |-> "DeactivationError", detail |-> <<callback>>]]

(***************************************************************************)
(* Actions.                                                                *)
(***************************************************************************)
Init ==
  /\ arrays = <<>>
  /\ objects = <<>>
  /\ plugins = <<>>
  /\ contexts = {}
  /\ store = InitialStore
  /\ last = NoCall
  /\ subscribers = NoHandlers
  /\ dispatch = Idle
  /\ invoked = <<>>
  /\ records = [r \in Records |-> "Registered"]
  /\ flights = [r \in Records |-> <<>>]

\* A caller builds a manifest literal and a lifecycle literal and calls
\* createPlugin.  Objects of a call that throws are referenced by nobody
\* afterwards and are not kept.
CreatePlugin(lit, lc) ==
  /\ Len(plugins) < MaxPlugins
  /\ LET arg == AllocObject(arrays, lit)
         objs1 == Append(objects, arg.obj)
         own == IF lc.manifest = NoProperty
                  THEN [arrays |-> arg.arrays, objects |-> objs1,
                        manifest |-> NoProperty]
                  ELSE LET o == AllocObject(arg.arrays, lc.manifest)
                       IN  [arrays |-> o.arrays, objects |-> Append(objs1, o.obj),
                            manifest |-> ObjRef(Len(objs1) + 1)]
         r == createPlugin(own.arrays, own.objects, Len(objs1),
                           [hooks |-> lc.hooks, manifest |-> own.manifest])
     IN  IF r.outcome.kind = "throw"
           THEN /\ UNCHANGED <<arrays, objects, plugins>>
                /\ last' = [op |-> "createPlugin", arg |-> lit, outcome |-> r.outcome]
           ELSE /\ arrays' = r.arrays
                /\ objects' = r.objects
                /\ plugins' = Append(plugins, r.plugin)
                /\ last' = [op |-> "createPlugin", arg |-> lit,
                            original |-> Len(objects) + 1,
                            plugin |-> Len(plugins) + 1, outcome |-> r.outcome]
  /\ UNCHANGED <<contexts, store>>
  /\ UNCHANGED bus
  /\ UNCHANGED manager

GetPluginMetadata(p) ==
  /\ p \in DOMAIN plugins
  /\ last' = [op |-> "getPluginMetadata", plugin |-> p,
              outcome |-> Ret(getPluginMetadata(plugins[p]))]
  /\ UNCHANGED <<arrays, objects, plugins, contexts, store>>
  /\ UNCHANGED bus
  /\ UNCHANGED manager

\* plugin code: metadata.permissions.push(c) on the value getPluginMetadata
\* just returned
PushMetadataPermissions(c) ==
  /\ last.op = "getPluginMetadata"
  /\ LET perms == last.outcome.value.permissions
     IN  /\ perms.t = "ref"
         /\ Len(arrays[perms.v]) < MaxArrayLen
         /\ arrays' = [arrays EXCEPT ![perms.v] = Append(@, c)]
  /\ last' = NoCall
  /\ UNCHANGED <<objects, plugins, contexts, store>>
  /\ UNCHANGED bus
  /\ UNCHANGED manager

\* activatePlugin(plugin): the host builds the context, manifest:
\* plugin.manifest and db.transactions: a wrapper bound to plugin, and hands
\* it to plugin.onActivate?.(context).  Without an onActivate hook nobody
\* receives the context and it is not kept.
ActivatePlugin(p) ==
  /\ p \in DOMAIN plugins
  /\ p \notin contexts
  /\ contexts' = IF "onActivate" \in plugins[p].hooks
                   THEN contexts \cup {p} ELSE contexts
  /\ last' = NoCall
  /\ UNCHANGED <<arrays, objects, plugins, store>>
  /\ UNCHANGED bus
  /\ UNCHANGED manager

\* plugin code: context.manifest.permissions.push(c)
PushContextPermissions(p, c) ==
  /\ p \in contexts
  /\ LET perms == objects[plugins[p].manifest].permissions
     IN  /\ perms.t = "ref"
         /\ Len(arrays[perms.v]) < MaxArrayLen
         /\ arrays' = [arrays EXCEPT ![perms.v] = Append(@, c)]
  /\ last' = NoCall
  /\ UNCHANGED <<objects, plugins, contexts, store>>
  /\ UNCHANGED bus
  /\ UNCHANGED manager

\* plugin code calls an operation of its context
GatedCall(p, op, k) ==
  /\ p \in contexts
  /\ LET r == EnforcedCall(plugins[p], store, op, k)
     IN  /\ store' = r.store
         /\ last' = [op |-> op, plugin |-> p, arg |-> k, before |-> store,
                     outcome |-> r.outcome]
  /\ UNCHANGED <<arrays, objects, plugins, contexts>>
  /\ UNCHANGED bus
  /\ UNCHANGED manager

Next ==
  \/ \E lit \in ManifestLiterals, lc \in LifecycleLiterals : CreatePlugin(lit, lc)
  \/ \E p \in 1..MaxPlugins : GetPluginMetadata(p)
  \/ \E c \in PushedTokens : PushMetadataPermissions(c)
  \/ \E p \in 1..MaxPlugins : ActivatePlugin(p)
  \/ \E p \in 1..MaxPlugins, c \in PushedTokens : PushContextPermissions(p, c)
  \/ \E p \in 1..MaxPlugins, op \in Operations, k \in Keys : GatedCall(p, op, k)

Spec == Init /\ [][Next]_vars

(***************************************************************************)
(* The caller's side of createPlugin: after the call returned, the caller  *)
(* still holds the manifest object it passed and may change it.            *)
(***************************************************************************)
RenamedId == Str(<<"x">>)

\* caller code: manifest.id = 'x'; manifest.permissions?.push(c) on the
\* object it passed to the createPlugin call that just returned
MutateOriginal(c) ==
  /\ last.op = "createPlugin"
  /\ last.outcome.kind = "return"
  /\ LET o == last.original
         perms == objects[o].permissions
         pushes == perms.t = "ref" /\ Len(arrays[perms.v]) < MaxArrayLen
     IN  /\ objects' = [objects EXCEPT ![o].id = RenamedId]
         /\ arrays' = IF pushes THEN [arrays EXCEPT ![perms.v] = Append(@, c)]
                       ELSE arrays
         /\ last' = [op |-> "mutateOriginal", plugin |-> last.plugin,
                     original |-> o, pushed |-> pushes,
                     held |-> ReadObject(arrays, objects[plugins[last.plugin].manifest])]
  /\ UNCHANGED <<plugins, contexts, store>>
  /\ UNCHANGED bus
  /\ UNCHANGED manager

NextFrame ==
  \/ \E lit \in ManifestLiterals, lc \in LifecycleLiterals : CreatePlugin(lit, lc)
  \/ \E c \in PushedTokens : MutateOriginal(c)

SpecFrame == Init /\ [][NextFrame]_vars

(***************************************************************************)
(* The event bus on its own: plugin code registers and removes handlers,   *)
(* the host emits events, the bus calls the handlers one after the other.  *)
(* Handlers may be registered and removed while a dispatch is in progress. *)
(***************************************************************************)
On(eventType, handler) ==
  /\ subscribers' = on(subscribers, eventType, handler)
  /\ UNCHANGED <<arrays, objects, plugins, contexts, store, last, dispatch, invoked>>
  /\ UNCHANGED manager

Off(eventType, handler) ==
  /\ subscribers' = off(subscribers, eventType, handler)
  /\ UNCHANGED <<arrays, objects, plugins, contexts, store, last, dispatch, invoked>>
  /\ UNCHANGED manager

\* the host emits an event; `last` keeps the table as it was at the call
Emit(eventType) ==
  /\ ~InFlight(dispatch)
  /\ dispatch' = emit(subscribers, eventType)
  /\ invoked' = <<>>
  /\ last' = [op |-> "emit", type |-> eventType, registered |-> subscribers]
  /\ UNCHANGED <<arrays, objects, plugins, contexts, store, subscribers>>
  /\ UNCHANGED manager

Invoke(outcome) ==
  /\ InFlight(dispatch)
  /\ LET r == invoke(dispatch, invoked, outcome)
     IN  /\ dispatch' = r.dispatch
         /\ invoked' = r.invoked
  /\ UNCHANGED <<arrays, objects, plugins, contexts, store, last, subscribers>>
  /\ UNCHANGED manager

NextEvents ==
  \/ \E T \in EventTypes, h \in Handlers : On(T, h)
  \/ \E T \in EventTypes, h \in Handlers : Off(T, h)
  \/ \E T \in EventTypes : Emit(T)
  \/ \E outcome \in {"returned", "threw"} : Invoke(outcome)

SpecEvents == Init /\ [][NextEvents]_vars

(***************************************************************************)
(* The plugin manager on its own: the host requests activations and        *)
(* deactivations, the hooks end some time later.                           *)
(***************************************************************************)
Activate(r) ==
  /\ CanStart(flights[r])
  /\ LET a == activate(records[r], HooksOf(r))
     IN  /\ flights' = IF a.started THEN [flights EXCEPT ![r] = Append(@, "activate")]
                        ELSE flights
         /\ last' = [op |-> "activate", record |-> r, from |-> records[r],
                     invoked |-> a.invoked, outcome |-> a.outcome]
  /\ UNCHANGED <<arrays, objects, plugins, contexts, store, records>>
  /\ UNCHANGED bus

\* the hook of an activation in flight ends (a record without the hook has
\* nothing that can fail)
ActivateEnd(r, callback) ==
  /\ \E i \in 1..Len(flights[r]) : flights[r][i] = "activate"
  /\ "onActivate" \notin HooksOf(r) => callback = "resolved"
  /\ LET e == activationEnd(records[r], callback)
     IN  /\ records' = [records EXCEPT ![r] = e.state]
         /\ last' = [op |-> "activateEnd", record |-> r, from |-> records[r],
                     callback |-> callback, outcome |-> e.outcome]
  /\ flights' = [flights EXCEPT ![r] = RemoveFirst(@, "activate")]
  /\ UNCHANGED <<arrays, objects, plugins, contexts, store>>
  /\ UNCHANGED bus

Deactivate(r) ==
  /\ CanStart(flights[r])
  /\ LET d == deactivate(records[r], HooksOf(r))
     IN  /\ flights' = IF d.started THEN [flights EXCEPT ![r] = Append(@, "deactivate")]
                        ELSE flights
         /\ last' = [op |-> "deactivate", record |-> r, from |-> records[r],
                     invoked |-> d.invoked, outcome |-> d.outcome]
  /\ UNCHANGED <<arrays, objects, plugins, contexts, store, records>>
  /\ UNCHANGED bus

DeactivateEnd(r, callback) ==
  /\ \E i \in 1..Len(flights[r]) : flights[r][i] = "deactivate"
  /\ "onDeactivate" \notin HooksOf(r) => callback = "resolved"
  /\ LET e == deactivationEnd(records[r], callback)
     IN  /\ records' = [records EXCEPT ![r] = e.state]
         /\ last' = [op |-> "deactivateEnd", record |-> r, from |-> records[r],
                     callback |-> callback, outcome |-> e.outcome]
  /\ flights' = [flights EXCEPT ![r] = RemoveFirst(@, "deactivate")]
  /\ UNCHANGED <<arrays, objects, plugins, contexts, store>>
  /\ UNCHANGED bus

NextLifecycle ==
  \/ \E r \in Records : Activate(r)
  \/ \E r \in Records, callback \in CallbackOutcomes : ActivateEnd(r, callback)
  \/ \E r \in Records : Deactivate(r)
  \/ \E r \in Records, callback \in CallbackOutcomes : DeactivateEnd(r, callback)

SpecLifecycle == Init /\ [][NextLifecycle]_vars

(***************************************************************************)
(* PluginManifestSchema.safeParse on its own: a pure function, applied to  *)
(* raw manifests whose id runs over every string of up to MaxIdLen         *)
(* characters of IdAlphabet and over values that are no string.            *)
(***************************************************************************)
MaxIdLen == 2
IdAlphabet == {"a", "z", "0", "9", "-", "A", "Z", " ", "!", "_", ".", "/"}
IdStrings == UNION {[1..n -> IdAlphabet] : n \in 0..MaxIdLen}
IdValues == {Str(s) : s \in IdStrings} \cup {Undefined, Num(42)}

\* the other fields: all valid, or name and version invalid as well
OtherFields ==
  {BaseManifest,
   [BaseManifest EXCEPT !.permissions = Arr(<<TxRead>>)],
   [BaseManifest EXCEPT !.name = Str(<<>>), !.version = Str(<<"1", ".", "0">>)]}

\* a manifest that supplies every key of the schema
FullManifest ==
  [BaseManifest EXCEPT !.homepage = Str(<<"https:", "//example.com">>),
                       !.permissions = Arr(<<TxWrite, TxRead>>),
                       !.icon = Text("icon.svg"),
                       !.tags = Arr(<<Text("tax")>>)]

\* for every key a value that breaks the key's rule
Broken ==
  [id |-> Str(<<>>),
   name |-> Str(<<>>),
   version |-> Str(<<"1", ".", "0">>),
   author |-> Num(7),
   description |-> Str(<<>>),
   homepage |-> Text("not a url"),
   compatibleVersions |-> Num(1),
   permissions |-> Arr(<<Num(1), TxRead, Num(2)>>),
   icon |-> Num(0),
   tags |-> Text("tax")]

KeySet == {SchemaKeys[i] : i \in 1..Len(SchemaKeys)}

\* the full manifest with any set of keys left out, and with any set of
\* keys broken
Omissions ==
  {[k \in KeySet |-> IF k \in K THEN Undefined ELSE FullManifest[k]] :
     K \in SUBSET KeySet}
Breakages ==
  {[k \in KeySet |-> IF k \in K THEN Broken[k] ELSE FullManifest[k]] :
     K \in SUBSET KeySet}

\* permissions lists with a repeated and with reordered entries
ListedManifests ==
  {[BaseManifest EXCEPT !.permissions = Arr(l)] :
     l \in {<<TxRead, TxRead>>, <<TxRead, TxWrite>>, <<TxWrite, TxRead, TxWrite>>}}

\* version strings: every string of up to MaxVersionLen characters of
\* VersionAlphabet, and a release with a pre-release suffix
MaxVersionLen == 6
VersionAlphabet == {"1", "0", ".", "v", "-"}
VersionStrings ==
  UNION {[1..n -> VersionAlphabet] : n \in 0..MaxVersionLen}
  \cup {<<"1", ".", "0", ".", "0", "-", "b", "e", "t", "a">>}
VersionedManifests == {[BaseManifest EXCEPT !.version = Str(v)] : v \in VersionStrings}

\* inputs that are no object
NonObjects == {Undefined, Num(42), Text("manifest"), Arr(<<>>)}

RawManifests ==
  {[m EXCEPT !.id = i] : m \in OtherFields, i \in IdValues}
  \cup Omissions \cup Breakages \cup ListedManifests \cup NonObjects
  \cup VersionedManifests

\* a caller holds a raw manifest ...
InitValidate ==
  /\ arrays = <<>>
  /\ objects = <<>>
  /\ plugins = <<>>
  /\ contexts = {}
  /\ store = InitialStore
  /\ last \in {[op |-> "input", arg |-> raw] : raw \in RawManifests}
  /\ subscribers = NoHandlers
  /\ dispatch = Idle
  /\ invoked = <<>>
  /\ records = [r \in Records |-> "Registered"]
  /\ flights = [r \in Records |-> <<>>]

\* ... and calls PluginManifestSchema.safeParse on it
Validate ==
  /\ last.op = "input"
  /\ last' = [op |-> "safeParse", arg |-> last.arg, outcome |-> SafeParse(last.arg)]
  /\ UNCHANGED <<arrays, objects, plugins, contexts, store>>
  /\ UNCHANGED bus
  /\ UNCHANGED manager

NextValidate == Validate

SpecValidate == InitValidate /\ [][NextValidate]_vars

(***************************************************************************)
(* Properties.                                                             *)
(***************************************************************************)
\* what the properties read off the state
ManifestOf(p) == objects[plugins[p].manifest]
HasArray(p) == ManifestOf(p).permissions.t = "ref"
\* the elements of plugin p's manifest.permissions
Declared(p) ==
  IF HasArray(p)
    THEN {arrays[ManifestOf(p).permissions.v][i] :
            i \in 1..Len(arrays[ManifestOf(p).permissions.v])}
    ELSE {}
Capabilities == Vocabulary \cup AskedTokens
SameResource(c, d) == c.v # <<>> /\ d.v # <<>> /\ c.v[1] = d.v[1]
WellFormedToken(c) == Len(c.v) = 3 /\ c.v[2] = ":"
\* sequence `part` occurs in sequence `whole`
Occurs(part, whole) ==
  \E i \in 1..(Len(whole) - Len(part) + 1) :
    SubSeq(whole, i, i + Len(part) - 1) = part
IsGated == last.op \in Operations
\* the gate refused the last call: the wrapper threw before the real call
Refused == IsGated /\ last.outcome.kind = "throw" /\ last.outcome.name \in {"Error", "TypeError"}
Denied == IsGated /\ last.outcome.kind = "throw" /\ last.outcome.name = "Error"

\* C1: for every plugin createPlugin returned and every capability string
\* c, hasPermission(plugin, c) returns true exactly when c is an element of
\* plugin.manifest.permissions, and returns false for every other c when
\* permissions is an array: no implicit grant, no implicit denial.
C1_MembershipReflectsDeclared ==
  \A p \in DOMAIN plugins : \A c \in Capabilities :
    /\ (hasPermission(plugins[p], c) = Ret(TRUE)) <=> (c \in Declared(p))
    /\ HasArray(p) => hasPermission(plugins[p], c).kind = "return"

C1_Witness ==
  \E p \in DOMAIN plugins :
    /\ hasPermission(plugins[p], TxRead) = Ret(TRUE)
    /\ hasPermission(plugins[p], Tok("accounts", "write")) = Ret(FALSE)

\* C2: the check is exact-string membership: when the declared permissions
\* do not contain the string c, hasPermission(plugin, c) is false, also when
\* a declared permission shares c's resource prefix.
C2_NoPrefixMatching ==
  \A p \in DOMAIN plugins : \A c \in Capabilities :
    (/\ HasArray(p)
     /\ c \notin Declared(p)
     /\ \E d \in Declared(p) : SameResource(c, d))
    => hasPermission(plugins[p], c) = Ret(FALSE)

C2_Witness ==
  \E p, q \in DOMAIN plugins :
    /\ Declared(p) = {TxWrite}
    /\ hasPermission(plugins[p], TxRead) = Ret(FALSE)
    /\ hasPermission(plugins[p], Text("transactions")) = Ret(FALSE)
    /\ Declared(q) = {TxRead}
    /\ hasPermission(plugins[q], TxWrite) = Ret(FALSE)

\* C3: every manifest held by a Plugin that createPlugin returned satisfies
\* the schema, whatever own properties the lifecycle argument has.
C3_HeldManifestValidated ==
  \A p \in DOMAIN plugins :
    SafeParse(ReadObject(arrays, ManifestOf(p))).success

\* C4: once a plugin is created the value of hasPermission(plugin, c) never
\* changes, for every c, whatever SDK operations and plugin-side actions
\* follow.
C4_CapabilitiesFixed ==
  [][\A p \in DOMAIN plugins : \A c \in Capabilities :
       hasPermission(plugins[p], c)' = hasPermission(plugins[p], c)]_vars

C6_MalformedNeverGranted ==
  \A p \in DOMAIN plugins : \A c \in Capabilities :
    ~WellFormedToken(c) => hasPermission(plugins[p], c) # Ret(TRUE)

\* C7: the decision of a gated call is taken on the permission set of the
\* latest registration of the calling plugin's id, not on the one in force
\* when the context was built.
Latest(p) ==
  CHOOSE q \in DOMAIN plugins :
    /\ ManifestOf(q).id = ManifestOf(p).id
    /\ \A r \in DOMAIN plugins : ManifestOf(r).id = ManifestOf(p).id => r <= q
C7_DecisionFollowsLatestRegistration ==
  IsGated =>
    (~Refused <=> RequiredCapability(last.op) \in Declared(Latest(last.plugin)))

\* C8: when the plugin has the required capability, the gated operation
\* returns what the real operation returns and changes the state as the
\* real operation does, for the same arguments.
C8_TransparentWhenAllowed ==
  (IsGated /\ RequiredCapability(last.op) \in Declared(last.plugin))
    => [store |-> store, outcome |-> last.outcome]
         = ActualCall(last.before, last.op, last.arg)

C8_Witness ==
  /\ last.op = "transactions.update"
  /\ TxWrite \in Declared(last.plugin)
  /\ last.outcome = Ret(Row(last.arg, "updated"))
  /\ store # last.before

\* C9: the error of every refused call for a missing capability names the
\* calling plugin's id and the missing capability.
C9_DenialNamesPluginAndCapability ==
  Denied =>
    /\ Occurs(Interpolate(ManifestOf(last.plugin).id), last.outcome.detail)
    /\ Occurs(RequiredCapability(last.op).v, last.outcome.detail)

\* C10: validation fails with an issue at path id for every raw manifest
\* whose id is the empty string or has a character outside [a-z0-9-], and
\* reports no issue at path id for a non-empty id of those characters only.
IdIssueReported == \E i \in 1..Len(last.outcome.issues) : last.outcome.issues[i].path = <<"id">>
C10_IdRule ==
  (last.op = "safeParse" /\ IsObject(last.arg) /\ last.arg.id.t = "string") =>
    LET id == last.arg.id.v
        bad == id = <<>> \/ \E i \in 1..Len(id) : id[i] \notin LowerCase \cup Digits \cup {"-"}
    IN  /\ bad => (~last.outcome.success /\ IdIssueReported)
        /\ ~bad => ~IdIssueReported

C10_Witness ==
  /\ last.op = "safeParse"
  /\ IsObject(last.arg)
  /\ last.arg.id = Str(<<"a", " ">>)
  /\ ~last.outcome.success
  /\ last.outcome.issues = <<Issue(<<"id">>, "invalid_string")>>

\* what the properties read off a validation
Validated == last.op = "safeParse"
ReportedAt(key) ==
  {i \in 1..Len(last.outcome.issues) :
     last.outcome.issues[i].path # <<>> /\ last.outcome.issues[i].path[1] = key}
RequiredKeys == {"id", "name", "version", "author", "description", "compatibleVersions"}
AllStrings(x) == x.t = "array" /\ \A i \in 1..Len(x.v) : x.v[i].t = "string"
\* the value of `key` in object `raw` breaks the rule the schema states for it
Violated(raw, key) ==
  LET x == raw[key]
  IN  CASE key = "id" ->
             \/ x.t # "string"
             \/ x.v = <<>>
             \/ \E i \in 1..Len(x.v) : x.v[i] \notin LowerCase \cup Digits \cup {"-"}
        [] key \in {"name", "author", "description"} -> x.t # "string" \/ x.v = <<>>
        [] key = "version" -> x.t # "string" \/ ~VersionPattern(x.v)
        [] key = "homepage" -> x # Undefined /\ (x.t # "string" \/ ~IsUrl(x.v))
        [] key = "compatibleVersions" -> x.t # "string"
        [] key = "icon" -> x # Undefined /\ x.t # "string"
        [] key \in {"permissions", "tags"} -> x # Undefined /\ ~AllStrings(x)

\* C11: validation is total over fields: when a raw manifest breaks the
\* rules of several fields, the issue list has an entry for every one of the
\* violated fields, not only for the first of them.
C11_EveryViolatedFieldReported ==
  (Validated /\ IsObject(last.arg)) =>
    \A key \in KeySet : Violated(last.arg, key) => ReportedAt(key) # {}

C11_Witness ==
  /\ Validated /\ IsObject(last.arg)
  /\ {key \in KeySet : Violated(last.arg, key)} = {"name", "version", "tags"}
  /\ \A key \in {"name", "version", "tags"} : ReportedAt(key) # {}

\* C12: a failed safeParse has exactly one issue per violated field: every
\* violated field has an entry and no path appears in two entries, also
\* when one field breaks two of its rules (an empty id).
C12_OneEntryPerField ==
  (Validated /\ IsObject(last.arg) /\ ~last.outcome.success) =>
    /\ \A key \in KeySet : Violated(last.arg, key) => ReportedAt(key) # {}
    /\ \A i, j \in 1..Len(last.outcome.issues) :
         last.outcome.issues[i].path = last.outcome.issues[j].path => i = j

C17_RoundTrip ==
  (Validated /\ last.outcome.success) =>
    /\ SafeParse(last.outcome.data) =
         [success |-> TRUE, data |-> last.outcome.data, issues |-> <<>>]
    /\ \A key \in KeySet :
         last.arg[key] # Undefined => last.outcome.data[key] = last.arg[key]

C17_Witness ==
  /\ Validated /\ last.outcome.success
  /\ last.arg.permissions = Arr(<<TxWrite, TxRead, TxWrite>>)
  /\ last.outcome.data.permissions = Arr(<<TxWrite, TxRead, TxWrite>>)
  /\ last.arg.tags = Undefined

\* what the properties read off a createPlugin call
Created == last.op = "createPlugin" /\ last.outcome.kind = "return"

C16_DefaultPermissionsGrantNothing ==
  (Created /\ last.arg.permissions = Undefined) =>
    /\ ReadObject(arrays, ManifestOf(last.plugin)).permissions = Arr(<<>>)
    /\ \A c \in Capabilities : hasPermission(plugins[last.plugin], c) = Ret(FALSE)

\* C18: two plugins whose permissions lists hold the same set of strings,
\* in whatever order and multiplicity, get the same answer from
\* hasPermission for every capability.
C18_OrderAndMultiplicityIrrelevant ==
  \A p, q \in DOMAIN plugins :
    (HasArray(p) /\ HasArray(q) /\ Declared(p) = Declared(q)) =>
      \A c \in Capabilities :
        hasPermission(plugins[p], c) = hasPermission(plugins[q], c)

C18_Witness ==
  \E p, q \in DOMAIN plugins :
    /\ HasArray(p) /\ HasArray(q)
    /\ arrays[ManifestOf(p).permissions.v] = <<TxWrite, TxRead>>
    /\ arrays[ManifestOf(q).permissions.v] \in {<<TxRead, TxWrite>>, <<TxWrite, TxRead, TxWrite>>}
    /\ hasPermission(plugins[p], TxRead) = hasPermission(plugins[q], TxRead)

\* C19: the vocabulary is not hard-coded: a manifest that declares a string
\* outside the eleven tokens passes validation, and hasPermission answers
\* for every string outside the vocabulary by plain membership in the
\* declared list.
C19_VocabularyNotHardCoded ==
  /\ \A p \in DOMAIN plugins : \A c \in Capabilities \ Vocabulary :
       HasArray(p) => hasPermission(plugins[p], c) = Ret(c \in Declared(p))
  /\ (/\ last.op = "createPlugin"
      /\ \A key \in KeySet \ {"permissions"} : ~Violated(last.arg, key)
      /\ last.arg.permissions # Undefined
      /\ AllStrings(last.arg.permissions))
     => last.outcome.kind = "return"

C19_Witness ==
  /\ Created
  /\ last.arg.permissions = Arr(<<Custom>>)
  /\ hasPermission(plugins[last.plugin], Custom) = Ret(TRUE)
  /\ hasPermission(plugins[last.plugin], Malformed) = Ret(FALSE)
  /\ hasPermission(plugins[last.plugin], TxRead) = Ret(FALSE)

\* what the properties read off an emission
Emitted == last.op = "emit" /\ ~InFlight(dispatch)
InvokedHandlers == [i \in 1..Len(invoked) |-> invoked[i].handler]

\* C20: an emit of an event of type T calls every handler that was
\* registered for T when emit was called, each exactly once and in the order
\* of registration, and calls no handler registered only for another type.
C20_DeliveryInRegistrationOrder ==
  Emitted =>
    /\ InvokedHandlers = last.registered[last.type]
    /\ \A i \in 1..Len(invoked) : invoked[i].type = last.type
    /\ \A h \in Handlers :
         Cardinality({i \in 1..Len(invoked) : invoked[i].handler = h})
           = IF IsRegistered(last.registered, last.type, h) THEN 1 ELSE 0

C20_Witness ==
  /\ Emitted
  /\ last.type = "sync.completed"
  /\ last.registered["sync.completed"] = <<"h2", "h1">>
  /\ last.registered["sync.failed"] = <<"h3">>
  /\ InvokedHandlers = <<"h2", "h1">>

\* C21: a handler that throws or rejects during an emission does not stop
\* it: every handler registered after the failing one for the same type is
\* still invoked, and emit returns normally to its caller.
C21_HandlerFailureIsolated ==
  /\ dispatch.result # "threw"
  /\ Emitted =>
       /\ dispatch.result = "returned"
       /\ \A i \in 1..Len(invoked) :
            invoked[i].outcome = "threw" =>
              \A j \in (i + 1)..Len(last.registered[last.type]) :
                j <= Len(invoked) /\ invoked[j].handler = last.registered[last.type][j]

C21_Witness ==
  /\ Emitted
  /\ dispatch.result = "returned"
  /\ Len(invoked) = 3
  /\ invoked[1].outcome = "threw"
  /\ invoked[2].outcome = "returned"
  /\ invoked[3].outcome = "threw"

\* C22: the handlers invoked for an emission are the handlers that were
\* registered for its type when emit was called: a handler registered while
\* the dispatch is in progress is not invoked for it, a handler removed
\* meanwhile still is.
C22_SnapshotAtEmit ==
  last.op = "emit" =>
    /\ dispatch.snapshot = last.registered[last.type]
    /\ \A i \in 1..Len(invoked) :
         IsRegistered(last.registered, last.type, invoked[i].handler)
    /\ ~InFlight(dispatch) => Len(invoked) = Len(last.registered[last.type])

C22_Witness ==
  /\ Emitted
  /\ last.registered[last.type] = <<"h1", "h2">>
  /\ subscribers[last.type] = <<"h1", "h2", "h3">>
  /\ InvokedHandlers = <<"h1", "h2">>

C25_DeactivateIdempotent ==
  last.op = "deactivate" =>
    /\ last.from = "Inactive" =>
         /\ ~last.invoked
         /\ last.outcome = Ret(Undefined)
         /\ records[last.record] = "Inactive"
         /\ flights[last.record] = <<>>
    /\ last.invoked => (last.from = "Active" /\ "onDeactivate" \in HooksOf(last.record))

C25_Witness ==
  /\ last.op = "deactivate"
  /\ last.record = "r1"
  /\ last.from = "Inactive"
  /\ ~last.invoked
  /\ records["r1"] = "Inactive"

HasVersionPrefix(s) ==
  \E a, b \in 1..Len(s) :
    /\ a >= 2 /\ \A i \in 1..(a - 1) : s[i] \in Digits
    /\ s[a] = "."
    /\ b >= a + 2 /\ \A i \in (a + 1)..(b - 1) : s[i] \in Digits
    /\ s[b] = "."
    /\ b + 1 <= Len(s) /\ s[b + 1] \in Digits

\* C27: the version rule looks at the leading segment only: a version
\* string is accepted exactly when it begins with <digits>.<digits>.<digits>,
\* whatever follows, and every other string is rejected with an issue whose
\* path is version.
C27_VersionPrefixRule ==
  (Validated /\ IsObject(last.arg) /\ last.arg.version.t = "string") =>
    /\ HasVersionPrefix(last.arg.version.v) => ReportedAt("version") = {}
    /\ ~HasVersionPrefix(last.arg.version.v) =>
         (~last.outcome.success /\ ReportedAt("version") # {})

C27_Witness ==
  /\ Validated /\ IsObject(last.arg)
  /\ last.arg.version = Str(<<"1", ".", "0", ".", "0", "-", "b", "e", "t", "a">>)
  /\ last.outcome.success

=============================================================================
